---- MODULE Spec2Model ----
(***************************************************************************)
(* Model of src/santa_planner.py (class SantaPlanner): the capacity-aware  *)
(* clustering of children into trips, the per-trip nearest-neighbour       *)
(* ordering, the flat route plan with refill rows, and the distance, time  *)
(* and count statistics computed from the plan.                            *)
(*                                                                         *)
(* A DataFrame is modelled as the sequence of its row labels, in row       *)
(* order; the rows themselves live in good_children (label i = row i).     *)
(* Coordinates are <<latitude, longitude>> in degrees, restricted to the   *)
(* great circle made of the meridians 0 and 180, where the haversine       *)
(* distance is the radius times the arc between the two points; distances  *)
(* are kept in degrees of arc, so that they stay integral.  Weights,       *)
(* volumes and limits are non-negative integers; the rounding of floating  *)
(* point sums and distances is not modelled.                               *)
(***************************************************************************)
EXTENDS Integers, Sequences, FiniteSets, TLC

VARIABLES
    good_children,      \* rows [child, latitude, longitude, wish], label = position
    articles,           \* the Articles sheet: article id -> [weight, volume]
    max_weight,         \* Slay Meta Data: maximum weight
    max_volume,         \* Slay Meta Data: maximum volume
    speed_kmh,          \* Slay Meta Data: speed (km/h)
    time_per_stop_min,  \* Slay Meta Data: time per stop (min)
    pc,                 \* position in generate_route_plan / main
    remaining,          \* greedy_cluster_by_capacity: rows not yet in a trip
    trips,              \* greedy_cluster_by_capacity: the trips saved so far
    current_trip,       \* the trip under construction (rows in order of addition)
    current_coord,      \* the cursor of the trip under construction
    trip_remaining,     \* rows still candidate for the trip under construction
    route_plan,         \* generate_route_plan's result
    stats               \* save_statistics' figures

vars == <<good_children, articles, max_weight, max_volume, speed_kmh,
          time_per_stop_min, pc, remaining, trips, current_trip,
          current_coord, trip_remaining, route_plan, stats>>

inputs == <<good_children, articles, max_weight, max_volume, speed_kmh,
            time_per_stop_min>>

(***************************************************************************)
(* Bounds and input domains                                                *)
(***************************************************************************)
MaxChildren == 3

\* <<latitude, longitude>>: the pole, two points 30 degrees of arc away
\* from it on either side, and one 60 degrees away.
Coords == { <<90, 0>>, <<60, 0>>, <<60, 180>>, <<30, 0>> }
Wishes == {1, 2}

\* The 'child' column: identifiers are unique, but neither sorted nor non-zero.
ChildIdColumns(n) ==
    { [i \in 1..n |-> i],
      [i \in 1..n |-> n - i] }

\* The Articles sheet (article 2 may have no row).
ArticleSheets ==
    { (1 :> [weight |-> 1, volume |-> 1]) @@ (2 :> [weight |-> 2, volume |-> 1]),
      (1 :> [weight |-> 1, volume |-> 2]) @@ (2 :> [weight |-> 3, volume |-> 0]),
      (1 :> [weight |-> 1, volume |-> 1]) }

\* The Slay Meta Data sheet.
MetaSheets ==
    { [max_weight |-> 3, max_volume |-> 3, speed_kmh |-> 2, time_per_stop_min |-> 5],
      [max_weight |-> 2, max_volume |-> 2, speed_kmh |-> 2, time_per_stop_min |-> 5] }

north_pole == <<90, 0>>

(***************************************************************************)
(* Helpers on rows                                                         *)
(***************************************************************************)
Range(s) == { s[i] : i \in 1..Len(s) }

coord_of(idx) == <<good_children[idx].latitude, good_children[idx].longitude>>

\* DataFrame.drop(labels): the rows that stay, in their order.
drop(frame, labels) == SelectSeq(frame, LAMBDA idx : idx \notin labels)

Abs(x) == IF x < 0 THEN -x ELSE x

\* haversine_distance on the great circle through the pole along the
\* meridians 0 and 180, in degrees of arc.
haversine_distance(coord1, coord2) ==
    IF coord1[2] = coord2[2]
    THEN Abs(coord1[1] - coord2[1])
    ELSE (90 - coord1[1]) + (90 - coord2[1])

get_article_info(article_id) ==
    IF article_id \notin DOMAIN articles
    THEN <<0, 0>>
    ELSE <<articles[article_id].weight, articles[article_id].volume>>

\* children_subset['wish'].value_counts().to_dict()
calculate_load_requirements(children_subset) ==
    LET wished == { good_children[idx].wish : idx \in Range(children_subset) }
    IN [a \in wished |->
          Cardinality({ i \in 1..Len(children_subset) :
                          good_children[children_subset[i]].wish = a })]

RECURSIVE load_total(_, _, _)
load_total(article_counts, ids, field) ==
    IF ids = {} THEN 0
    ELSE LET article_id == CHOOSE a \in ids : TRUE
         IN get_article_info(article_id)[field] * article_counts[article_id]
            + load_total(article_counts, ids \ {article_id}, field)

\* Variant: the volume is not checked.
can_fit_weight_only(article_counts) ==
    load_total(article_counts, DOMAIN article_counts, 1) <= max_weight

can_fit_in_sleigh(article_counts) ==
    /\ load_total(article_counts, DOMAIN article_counts, 1) <= max_weight
    /\ load_total(article_counts, DOMAIN article_counts, 2) <= max_volume

(***************************************************************************)
(* greedy_cluster_by_capacity                                              *)
(***************************************************************************)
\* distances.sort_values().index: the labels by ascending distance.  The
\* default sort kind is not stable, so rows at equal distance come in any
\* order: every ascending order of the labels is a possible outcome.
RECURSIVE ascending_orders(_, _)
ascending_orders(cursor, labels) ==
    IF labels = {} THEN { <<>> }
    ELSE LET d(idx) == haversine_distance(cursor, coord_of(idx))
             nearest == { idx \in labels : \A other \in labels : d(idx) <= d(other) }
         IN UNION { { <<idx>> \o rest :
                        rest \in ascending_orders(cursor, labels \ {idx}) } :
                    idx \in nearest }

sort_values(cursor, frame) == ascending_orders(cursor, Range(frame))

\* Variant: only the nearest row is tried.
first_fit_nearest_only(trip, sorted_indices) ==
    IF /\ Len(sorted_indices) > 0
       /\ can_fit_in_sleigh(calculate_load_requirements(
              Append(trip, sorted_indices[1])))
    THEN 1 ELSE 0

\* The for loop over sorted_indices: the position of the first row whose
\* addition to the trip fits, 0 when none does (added_any stays False).
first_fit(trip, sorted_indices) ==
    LET fitting == { i \in 1..Len(sorted_indices) :
                       can_fit_in_sleigh(calculate_load_requirements(
                           Append(trip, sorted_indices[i]))) }
    IN IF fitting = {} THEN 0
       ELSE CHOOSE i \in fitting : \A j \in fitting : i <= j

Init ==
    /\ \E n \in 0..MaxChildren :
         \E ids \in ChildIdColumns(n), loc \in [1..n -> Coords], w \in [1..n -> Wishes] :
            good_children = [i \in 1..n |->
                               [child |-> ids[i], latitude |-> loc[i][1],
                                longitude |-> loc[i][2], wish |-> w[i]]]
    /\ articles \in ArticleSheets
    /\ \E meta \in MetaSheets :
         /\ max_weight = meta.max_weight
         /\ max_volume = meta.max_volume
         /\ speed_kmh = meta.speed_kmh
         /\ time_per_stop_min = meta.time_per_stop_min
    /\ pc = "while_remaining"
    /\ remaining = [i \in 1..Len(good_children) |-> i]
    /\ trips = <<>>
    /\ current_trip = <<>>
    /\ current_coord = north_pole
    /\ trip_remaining = <<>>
    /\ route_plan = <<>>
    /\ stats = [total_stops |-> 0, total_refills |-> 0,
                total_distance |-> 0, total_time |-> 0]

\* Variant: the candidates of a new trip are all the children, not only
\* those no trip holds yet.
StartTrip_from_all_children ==
    /\ pc = "while_remaining"
    /\ Len(remaining) > 0
    /\ current_trip' = <<>>
    /\ current_coord' = north_pole
    /\ trip_remaining' = [i \in 1..Len(good_children) |-> i]
    /\ pc' = "while_trip_remaining"
    /\ UNCHANGED <<inputs, remaining, trips, route_plan, stats>>

\* while len(remaining) > 0: start a new trip from the North Pole.
StartTrip ==
    /\ pc = "while_remaining"
    /\ Len(remaining) > 0
    /\ current_trip' = <<>>
    /\ current_coord' = north_pole
    /\ trip_remaining' = remaining
    /\ pc' = "while_trip_remaining"
    /\ UNCHANGED <<inputs, remaining, trips, route_plan, stats>>

\* One pass of the inner loop that adds a child: the nearest row that fits.
AddChild ==
    /\ pc = "while_trip_remaining"
    /\ Len(trip_remaining) > 0
    /\ \E sorted_indices \in sort_values(current_coord, trip_remaining) :
         LET k == first_fit(current_trip, sorted_indices)
         IN /\ k # 0
            /\ current_trip' = Append(current_trip, sorted_indices[k])
            /\ current_coord' = coord_of(sorted_indices[k])
            /\ trip_remaining' = drop(trip_remaining, {sorted_indices[k]})
    /\ UNCHANGED <<inputs, pc, remaining, trips, route_plan, stats>>

\* The inner loop ends (no row left, or none fits) and the trip is saved
\* when it is not empty.
SaveTrip ==
    /\ pc = "while_trip_remaining"
    /\ \E sorted_indices \in sort_values(current_coord, trip_remaining) :
         first_fit(current_trip, sorted_indices) = 0
    /\ IF Len(current_trip) > 0
       THEN /\ trips' = Append(trips, current_trip)
            /\ remaining' = drop(remaining, Range(current_trip))
       ELSE UNCHANGED <<trips, remaining>>
    /\ pc' = "while_remaining"
    /\ UNCHANGED <<inputs, current_trip, current_coord, trip_remaining,
                   route_plan, stats>>

\* The outer loop ends: return trips.
ReturnTrips ==
    /\ pc = "while_remaining"
    /\ Len(remaining) = 0
    /\ pc' = "route_plan"
    /\ UNCHANGED <<inputs, remaining, trips, current_trip, current_coord,
                   trip_remaining, route_plan, stats>>

(***************************************************************************)
(* nearest_neighbor_from_point / optimize_trip_route                       *)
(***************************************************************************)
\* Variant: the row of the largest distance.
idxmax(cursor, frame) ==
    LET d(i) == haversine_distance(cursor, coord_of(frame[i]))
        pos == CHOOSE i \in 1..Len(frame) :
                  /\ \A j \in 1..Len(frame) : d(i) >= d(j)
                  /\ \A j \in 1..(i - 1) : d(j) < d(i)
    IN frame[pos]

\* Variant: the last row, in row order, at the minimal distance.
idxmin_last(cursor, frame) ==
    LET d(i) == haversine_distance(cursor, coord_of(frame[i]))
        pos == CHOOSE i \in 1..Len(frame) :
                  /\ \A j \in 1..Len(frame) : d(i) <= d(j)
                  /\ \A j \in (i + 1)..Len(frame) : d(j) > d(i)
    IN frame[pos]

\* distances.idxmin(): the label of the first row, in row order, at the
\* minimal distance.
idxmin(cursor, frame) ==
    LET d(i) == haversine_distance(cursor, coord_of(frame[i]))
        pos == CHOOSE i \in 1..Len(frame) :
                  /\ \A j \in 1..Len(frame) : d(i) <= d(j)
                  /\ \A j \in 1..(i - 1) : d(j) > d(i)
    IN frame[pos]

\* Variant: current_coord is never moved to the child just ordered.
RECURSIVE nearest_neighbor_fixed_cursor(_, _)
nearest_neighbor_fixed_cursor(start_coord, remaining_children) ==
    IF Len(remaining_children) = 0 THEN <<>>
    ELSE LET nearest_idx == idxmin(start_coord, remaining_children)
         IN <<nearest_idx>> \o
            nearest_neighbor_fixed_cursor(start_coord,
                                          drop(remaining_children, {nearest_idx}))

RECURSIVE nearest_neighbor_from_point(_, _)
nearest_neighbor_from_point(start_coord, remaining_children) ==
    IF Len(remaining_children) = 0 THEN <<>>
    ELSE LET nearest_idx == idxmin(start_coord, remaining_children)
         IN <<nearest_idx>> \o
            nearest_neighbor_from_point(coord_of(nearest_idx),
                                        drop(remaining_children, {nearest_idx}))

optimize_trip_route(trip) == nearest_neighbor_from_point(north_pole, trip)

(***************************************************************************)
(* generate_route_plan                                                     *)
(***************************************************************************)
\* The refill rows of one trip: one row per article, by ascending article
\* id (float() of a small integer is that integer).
RECURSIVE refill_rows(_, _)
refill_rows(article_counts, ids) ==
    IF ids = {} THEN <<>>
    ELSE LET article_id == CHOOSE a \in ids : \A b \in ids : a <= b
         IN <<[stop |-> 0, article |-> article_id,
               pieces |-> article_counts[article_id]]>>
            \o refill_rows(article_counts, ids \ {article_id})

\* The delivery rows of one trip, in the optimized order.
delivery_rows(optimized_trip) ==
    [i \in 1..Len(optimized_trip) |->
        [stop |-> good_children[optimized_trip[i]].child,
         article |-> "None", pieces |-> "None"]]

trip_rows(trip) ==
    LET article_counts == calculate_load_requirements(trip)
    IN refill_rows(article_counts, DOMAIN article_counts)
       \o delivery_rows(optimize_trip_route(trip))

RECURSIVE generate_route_plan(_)
generate_route_plan(trip_list) ==
    IF Len(trip_list) = 0 THEN <<>>
    ELSE trip_rows(Head(trip_list)) \o generate_route_plan(Tail(trip_list))

(***************************************************************************)
(* calculate_total_distance / calculate_total_time / save_statistics       *)
(***************************************************************************)
\* good_children[good_children['child'] == stop].iloc[0]
child_row(stop) ==
    LET pos == CHOOSE i \in 1..Len(good_children) :
                  /\ good_children[i].child = stop
                  /\ \A j \in 1..(i - 1) : good_children[j].child # stop
    IN good_children[pos]

\* The loop of calculate_total_distance from row i on, with the cursor at
\* cursor, and the final return to the North Pole.
RECURSIVE distance_from(_, _, _)
distance_from(plan, i, cursor) ==
    IF i > Len(plan)
    THEN haversine_distance(cursor, north_pole)
    ELSE IF plan[i].stop = 0
         THEN IF cursor # north_pole
              THEN haversine_distance(cursor, north_pole)
                   + distance_from(plan, i + 1, north_pole)
              ELSE distance_from(plan, i + 1, cursor)
         ELSE LET child == child_row(plan[i].stop)
                  child_coord == <<child.latitude, child.longitude>>
              IN haversine_distance(cursor, child_coord)
                 + distance_from(plan, i + 1, child_coord)

calculate_total_distance(plan) == distance_from(plan, 1, north_pole)

\* sum(1 for stop in route_plan if stop['stop'] != 0)
delivery_stops(plan) == Cardinality({ i \in 1..Len(plan) : plan[i].stop # 0 })

\* The total time, in hours times 60 * speed_kmh (which keeps it integral):
\* distance / speed_kmh + delivery_stops * time_per_stop_min / 60.
calculate_total_time(plan) ==
    60 * calculate_total_distance(plan)
    + delivery_stops(plan) * time_per_stop_min * speed_kmh

total_refills(plan) == Cardinality({ i \in 1..Len(plan) : plan[i].stop = 0 })

\* The rest of generate_route_plan, after greedy_cluster_by_capacity
\* returned.
GenerateRoutePlan ==
    /\ pc = "route_plan"
    /\ route_plan' = generate_route_plan(trips)
    /\ pc' = "save_statistics"
    /\ UNCHANGED <<inputs, remaining, trips, current_trip, current_coord,
                   trip_remaining, stats>>

\* save_statistics (round(x, 2) leaves the integral figures as they are).
SaveStatistics ==
    /\ pc = "save_statistics"
    /\ stats' = [total_stops |-> delivery_stops(route_plan),
                 total_refills |-> total_refills(route_plan),
                 total_distance |-> calculate_total_distance(route_plan),
                 total_time |-> calculate_total_time(route_plan)]
    /\ pc' = "done"
    /\ UNCHANGED <<inputs, remaining, trips, current_trip, current_coord,
                   trip_remaining, route_plan>>

Next ==
    \/ StartTrip
    \/ AddChild
    \/ SaveTrip
    \/ ReturnTrips
    \/ GenerateRoutePlan
    \/ SaveStatistics

Spec == Init /\ [][Next]_vars

(***************************************************************************)
(* Vocabulary of the properties, stated on the targets themselves          *)
(***************************************************************************)
Input == 1..Len(good_children)

ItemWeight(idx) ==
    LET a == good_children[idx].wish
    IN IF a \in DOMAIN articles THEN articles[a].weight ELSE 0

ItemVolume(idx) ==
    LET a == good_children[idx].wish
    IN IF a \in DOMAIN articles THEN articles[a].volume ELSE 0

RECURSIVE StopsWeight(_)
StopsWeight(stops) ==
    IF stops = <<>> THEN 0 ELSE ItemWeight(Head(stops)) + StopsWeight(Tail(stops))

RECURSIVE StopsVolume(_)
StopsVolume(stops) ==
    IF stops = <<>> THEN 0 ELSE ItemVolume(Head(stops)) + StopsVolume(Tail(stops))

WithinLimits(stops) ==
    StopsWeight(stops) <= max_weight /\ StopsVolume(stops) <= max_volume

AllFitAlone == \A idx \in Input : WithinLimits(<<idx>>)

Dist(coord, idx) == haversine_distance(coord, coord_of(idx))

\* The cursor before the k-th stop of a sequence of stops.
CursorBefore(stops, k) ==
    IF k = 1 THEN north_pole ELSE coord_of(stops[k - 1])

Front(s) == SubSeq(s, 1, Len(s) - 1)
Last(s) == s[Len(s)]

Occurrences(idx) ==
    { <<t, i>> \in (1..Len(trips)) \X Input :
        i <= Len(trips[t]) /\ trips[t][i] = idx }

TripsPartitionInput ==
    /\ \A idx \in Input : Cardinality(Occurrences(idx)) = 1
    /\ \A t \in 1..Len(trips) : Range(trips[t]) \subseteq Input

IsPermutationOf(seq, stops) ==
    /\ Len(seq) = Len(stops)
    /\ Range(seq) = Range(stops)
    /\ \A i, j \in 1..Len(seq) : i # j => seq[i] # seq[j]

\* depot -> stop_1 -> ... -> stop_k -> depot
RECURSIVE LegsFrom(_, _)
LegsFrom(coord, stops) ==
    IF stops = <<>> THEN haversine_distance(coord, north_pole)
    ELSE Dist(coord, Head(stops)) + LegsFrom(coord_of(Head(stops)), Tail(stops))

ClosedTour(stops) == LegsFrom(north_pole, stops)

RECURSIVE SumOfClosedTours(_)
SumOfClosedTours(trip_list) ==
    IF trip_list = <<>> THEN 0
    ELSE ClosedTour(optimize_trip_route(Head(trip_list)))
         + SumOfClosedTours(Tail(trip_list))

RECURSIVE RoutedTargets(_)
RoutedTargets(trip_list) ==
    IF trip_list = <<>> THEN 0
    ELSE Len(Head(trip_list)) + RoutedTargets(Tail(trip_list))

\* A state right after AddChild: the trip under construction has a last
\* addition, made from the cursor CursorBefore(current_trip, Len(current_trip))
\* when the candidates were trip_remaining plus the row added.
JustAdded == pc = "while_trip_remaining" /\ Len(current_trip) > 0
AddedFrom == CursorBefore(current_trip, Len(current_trip))

\* A state right after SaveTrip closed a non-empty trip: current_trip is
\* the trip closed and trip_remaining the working set left.
JustClosed == pc = "while_remaining" /\ Len(current_trip) > 0

(***************************************************************************)
(* C1: when every target fits the sleigh on its own,                       *)
(* greedy_cluster_by_capacity terminates and the trips it returns          *)
(* partition the input: every input row is in exactly one trip, once, and  *)
(* no trip holds anything else.  Termination is stated with a variant: a   *)
(* natural number that every step of the two loops makes strictly smaller. *)
(***************************************************************************)
LoopVariant ==
    (Len(good_children) + 3) * Len(remaining)
    + (IF pc = "while_remaining" THEN Len(good_children) + 2
       ELSE IF pc = "while_trip_remaining" THEN Len(trip_remaining) + 1
       ELSE 0)

C1_ReturnsPartition ==
    [][AllFitAlone =>
          /\ pc \in {"while_remaining", "while_trip_remaining"}
                => LoopVariant' < LoopVariant
          /\ pc' = "route_plan" => TripsPartitionInput']_vars

C1_Witness ==
    /\ AllFitAlone
    /\ pc = "route_plan"
    /\ Len(trips) >= 2
    /\ Len(good_children) = MaxChildren

(***************************************************************************)
(* C2: capacity invariant: the trip under construction and every saved     *)
(* trip carry at most max_weight of weight and max_volume of volume.       *)
(***************************************************************************)
C2_CapacityInvariant ==
    /\ WithinLimits(current_trip)
    /\ \A t \in 1..Len(trips) : WithinLimits(trips[t])

\* A trip was closed although targets were left: adding any of them would
\* break a limit, and the trip itself is exactly at the weight limit.
C2_Witness ==
    /\ JustClosed
    /\ Len(current_trip) >= 2
    /\ Len(trip_remaining) > 0
    /\ StopsWeight(current_trip) = max_weight

(***************************************************************************)
(* C3: once a candidate search ended with zero additions and an empty      *)
(* stop-set, the build stops: it is never back at the head of the trip     *)
(* loop, about to start another trip over the same, unchanged working set. *)
(***************************************************************************)
C3_StopsAfterEmptySearch ==
    ~ ( /\ pc = "while_remaining"
        /\ Len(remaining) > 0
        /\ current_trip = <<>>
        /\ trip_remaining = remaining )

(***************************************************************************)
(* C4: optimize_trip_route returns a permutation of the trip's stops in    *)
(* nearest-neighbour order from the depot: its k-th stop is at minimal     *)
(* distance from the cursor among the stops not yet returned.              *)
(***************************************************************************)
IsNearestNeighbourOrder(seq) ==
    \A k \in 1..Len(seq) : \A j \in k..Len(seq) :
        Dist(CursorBefore(seq, k), seq[k]) <= Dist(CursorBefore(seq, k), seq[j])

C4_SequenceIsNearestNeighbourPermutation ==
    \A t \in 1..Len(trips) :
        LET seq == optimize_trip_route(trips[t])
        IN IsPermutationOf(seq, trips[t]) /\ IsNearestNeighbourOrder(seq)

\* A trip of three stops whose visiting order is not the order of its rows
\* in the input, the stops being at three different distances from the depot.
C4_Witness ==
    \E t \in 1..Len(trips) :
        LET seq == optimize_trip_route(trips[t])
        IN /\ Len(seq) >= 3
           /\ \E i \in 1..(Len(seq) - 1) : seq[i] > seq[i + 1]
           /\ Cardinality({ Dist(north_pole, seq[i]) : i \in 1..Len(seq) }) >= 3

(***************************************************************************)
(* C5: calculate_total_distance of the plan is the sum over the trips of   *)
(* the closed tour depot -> stop_1 -> ... -> stop_k -> depot (0 for the    *)
(* empty plan).                                                            *)
(***************************************************************************)
C5_DistanceIsSumOfClosedTours ==
    pc = "done" => stats.total_distance = SumOfClosedTours(trips)

(***************************************************************************)
(* C6: the number of refill events reported equals the number of trips     *)
(* (stated for the inputs in which no child has the identifier 0, so that  *)
(* no delivery row is taken for a refill row).                             *)
(***************************************************************************)
C6_RefillsEqualTrips ==
    (pc = "done" /\ \A idx \in Input : good_children[idx].child # 0)
        => stats.total_refills = Len(trips)

(***************************************************************************)
(* C7: the stops charged dwell time are exactly the targets routed, so     *)
(* total time = distance / speed + routed targets * dwell / 60 (here times *)
(* 60 * speed).                                                            *)
(***************************************************************************)
C7_DwellCountsEveryTarget ==
    pc = "done" =>
        /\ stats.total_stops = RoutedTargets(trips)
        /\ stats.total_time = 60 * stats.total_distance
                              + RoutedTargets(trips) * time_per_stop_min * speed_kmh

(***************************************************************************)
(* C8: a trip is closed only when no target left in the working set, at    *)
(* any distance, could be added within both limits; and each target added  *)
(* is the nearest to the cursor among the remaining targets that fit.      *)
(***************************************************************************)
C8_ClosedMaximalAddedNearestFit ==
    /\ pc = "while_remaining" =>
          \A idx \in Range(trip_remaining) :
              ~ WithinLimits(Append(current_trip, idx))
    /\ JustAdded =>
          \A idx \in Range(trip_remaining) :
              WithinLimits(Append(Front(current_trip), idx))
                  => Dist(AddedFrom, Last(current_trip)) <= Dist(AddedFrom, idx)

\* The target just added is not the nearest one: a nearer one was passed
\* over because it does not fit.
C8_Witness ==
    /\ JustAdded
    /\ \E idx \in Range(trip_remaining) :
          /\ Dist(AddedFrom, idx) < Dist(AddedFrom, Last(current_trip))
          /\ ~ WithinLimits(Append(Front(current_trip), idx))

(***************************************************************************)
(* C9 as stated: among targets tied at the minimal distance from the       *)
(* cursor, the trip builder and the sequencer choose the smallest          *)
(* identifier.                                                             *)
(***************************************************************************)
ChildId(idx) == good_children[idx].child

RowOf(stops, idx) == CHOOSE i \in 1..Len(stops) : stops[i] = idx

C10_SequencingKeepsBuildOrder ==
    \A t \in 1..Len(trips) : optimize_trip_route(trips[t]) = trips[t]

\* A saved trip of two or more stops, built while a nearer target was
\* passed over for capacity, and holding two stops tied from the depot.
C10_Witness ==
    /\ JustClosed
    /\ Last(trips) = current_trip
    /\ Len(current_trip) >= 2
    /\ Dist(north_pole, current_trip[1]) = Dist(north_pole, current_trip[2])
    /\ \E idx \in Range(trip_remaining) :
          /\ Dist(north_pole, idx) < Dist(coord_of(current_trip[1]), current_trip[2])
          /\ Dist(coord_of(current_trip[1]), idx)
                < Dist(coord_of(current_trip[1]), current_trip[2])

====
